---- MODULE Spec2Model ----
(***************************************************************************)
(* SciOly-ID: media acquisition/selection (sciolyid/core.py,               *)
(* sciolyid/functions.py) and the upload push task                         *)
(* (sciolyid/web/tasks/git_tasks.py) as state machines.                    *)
(*                                                                         *)
(* The chat side runs on one asyncio event loop: a coroutine runs without  *)
(* interruption until it awaits something that really suspends.  In        *)
(* get_image/get_files the only such point is                              *)
(* `await loop.run_in_executor(executor, _clone/_pull)`; the redis client  *)
(* and os.listdir/os.stat are blocking calls.  An action below is          *)
(* therefore one run of a coroutine from a resumption to its next          *)
(* suspension (or its end), or one run of an executor thread.              *)
(***************************************************************************)
EXTENDS Integers, Sequences, FiniteSets, TLC

(***************************************************************************)
(* Bounds of the model.                                                    *)
(***************************************************************************)
\* most files the image repository holds (over all item directories)
MaxLen == 3
\* commands (coroutines) that can be in flight at once
NCallers == 4

(***************************************************************************)
(* Program constants.                                                      *)
(***************************************************************************)
\* core.py:153  `if retries < 3`
max_retries == 3
\* core.py:164  ThreadPoolExecutor(max_workers=3)
max_workers == 3
\* core.py:114  `statInfo.st_size < 4000000`
MaxFileSize == 4000000
\* functions.py:42  "prevJ": 20
InitialPrevJ == 20

\* core.py:31
valid_image_extensions == {"jpg", "png", "jpeg", "gif"}

Callers == 1..NCallers
Items == {"bluejay", "robin"}

(***************************************************************************)
(* Files.  A file name is its list of "."-separated parts, so that         *)
(* split(".")[-1] is the last part; a directory listing never holds a name *)
(* twice.                                                                  *)
(***************************************************************************)
Files ==
  { [name |-> <<"a", "jpg">>, size |-> 3999999],
    [name |-> <<"b", "PNG">>, size |-> 1024],
    [name |-> <<"c", "txt">>, size |-> 1024],
    [name |-> <<"d", "gif">>, size |-> 4000000] }

Listings(n) ==
  UNION { { s \in [1..k -> Files] : \A i, j \in 1..k : i # j => s[i] # s[j] }
          : k \in 0..n }

RECURSIVE SumLen(_, _)
SumLen(r, S) ==
  IF S = {} THEN 0
  ELSE LET i == CHOOSE x \in S : TRUE IN Len(r[i]) + SumLen(r, S \ {i})

Repositories ==
  { r \in [Items -> Listings(MaxLen)] : SumLen(r, Items) <= MaxLen }

NoDir == [exists |-> FALSE, files |-> <<>>]
EmptyDir == [exists |-> TRUE, files |-> <<>>]
Dir(fs) == [exists |-> TRUE, files |-> fs]

(***************************************************************************)
(* str / int over decimal digit strings (sequences of characters), and     *)
(* the decoding of a redis reply: str(b'20')[2:-1].                        *)
(***************************************************************************)
Digits == <<"0", "1", "2", "3", "4", "5", "6", "7", "8", "9">>

RECURSIVE Str(_)
Str(n) == IF n < 10 THEN <<Digits[n + 1]>> ELSE Str(n \div 10) \o <<Digits[(n % 10) + 1]>>

DigitVal(c) == (CHOOSE d \in 1..10 : Digits[d] = c) - 1

IsNumeral(s) == Len(s) > 0 /\ \A i \in 1..Len(s) : \E d \in 1..10 : Digits[d] = s[i]

RECURSIVE Int_(_)
Int_(s) == IF Len(s) = 1 THEN DigitVal(s[1])
           ELSE 10 * Int_(SubSeq(s, 1, Len(s) - 1)) + DigitVal(s[Len(s)])

\* str() of a bytes reply b'..' or of None
ReprReply(reply) ==
  IF reply = <<>> THEN <<"N", "o", "n", "e">> ELSE <<"b", "'">> \o reply[1] \o <<"'">>

\* s[2:-1]
Slice2m1(s) == SubSeq(s, 3, Len(s) - 1)

VARIABLES
  cloned,    \* the download directory exists (holds a working copy)
  cache,     \* item -> its directory under the download directory
  remote,    \* item -> its files in the image repository at origin
  channel,   \* the redis hash channel:<id> of the one channel modelled
  task,      \* caller -> the position and locals of its get_image call
  last,      \* how the last finished get_image call ended (history)
  prev,      \* how the one before it ended (history)
  clones     \* clones completed so far (history)

fetchVars == <<cloned, cache, remote, channel, task, last, prev, clones>>

VARIABLES
  origin,    \* what origin answers to a push: the flag word of each entry
  job,       \* the celery task push(commit_message, user_id) of the one user
  status,    \* the redis hash sciolyid.upload.status:<user_id>
  save,      \* the redis key sciolyid.upload.save:<user_id> exists
  now        \* the clock, in seconds

pushVars == <<origin, job, status, save, now>>

VARIABLES
  send       \* the send_image call of the command in flight

sendVars == <<send>>

VARIABLES
  votes,     \* the sorted sets sciolyid.verify.images:{invalid,duplicate,valid}
  vdir,      \* the files under the verification working directory
  irepo,     \* the files under the image repository's working tree
  pass       \* the celery task move_images: its position, locals and history

moveVars == <<votes, vdir, irepo, pass>>

vars == <<fetchVars, pushVars, sendVars, moveVars>>

\* what the chat side leaves alone
ChatOnly == UNCHANGED <<pushVars, sendVars, moveVars>>

\* what the web tasks leave alone
WebOnly == UNCHANGED <<fetchVars, sendVars, moveVars>>

\* what the reconciliation task leaves alone
MoveOnly == UNCHANGED <<fetchVars, pushVars, sendVars>>

NoChannel == [exists |-> FALSE, item |-> "", answered |-> <<>>, prevJ |-> <<>>, prevI |-> ""]

\* pc: where the coroutine stands; item, retries: get_files' arguments;
\* op, fut: the executor's job and its future; lists: the outcome of each
\* os.listdir of the call so far, ops: the jobs download_github started
IdleTask == [pc |-> "idle", item |-> "", retries |-> 0, op |-> "none", fut |-> "none",
             lists |-> <<>>, ops |-> <<>>]

\* kind/code: the exception, or "return"; gf: how get_files ended; images: what
\* it returned; y: the index of the candidate returned; examined: candidates
\* looked at; prevJ: the value read from the channel; ret/ext: the pair returned
NoResult == [kind |-> "none", code |-> 0, item |-> "", gf |-> "none", images |-> <<>>,
             y |-> -1, examined |-> 0, prevJ |-> -1, ret |-> <<>>, ext |-> "",
             lists |-> <<>>, ops |-> <<>>]

NoPrev == [kind |-> "none", images |-> <<>>, y |-> -1]

\* a call ends: its outcome becomes `last`, the old `last` becomes `prev`
Finish(p, outcome) ==
  /\ last' = outcome
  /\ prev' = [kind |-> last.kind, images |-> last.images, y |-> last.y]
  /\ task' = [task EXCEPT ![p] = IdleTask]

(***************************************************************************)
(* functions.py channel_setup                                              *)
(***************************************************************************)
channel_setup ==
  /\ channel' = IF channel.exists THEN channel
                ELSE [exists |-> TRUE, item |-> "", answered |-> Str(1),
                      prevJ |-> Str(InitialPrevJ), prevI |-> ""]
  /\ UNCHANGED <<cloned, cache, remote, task, last, prev, clones>>

(***************************************************************************)
(* core.py get_image: the selection (lines 98-125)                         *)
(***************************************************************************)
\* image_link.split(".")[-1]
Extension(image_link) == image_link.name[Len(image_link.name)]

\* str.lower on the extensions that occur
Lower(s) == CASE s = "PNG" -> "png" [] s = "JPG" -> "jpg" [] OTHER -> s

\* lines 112-115
IsValidImage(image_link) ==
  /\ Lower(Extension(image_link)) \in valid_image_extensions
  /\ image_link.size < MaxFileSize

\* a slip in line 98: the value the channel was set up with is used, not the
\* one stored now
HgetInitial(field) == IF channel.exists THEN <<Str(InitialPrevJ)>> ELSE <<>>

\* hget(channel, field): the reply, <<bytes>> or <<>> for None
Hget(field) == IF channel.exists THEN <<channel[field]>> ELSE <<>>

\* the for loop of lines 105-119 from iteration x on
RECURSIVE Scan(_, _, _, _)
Scan(images, j, prevJ, x) ==
  LET y == (x + j) % Len(images) IN
  IF IsValidImage(images[y + 1]) THEN [how |-> "break", y |-> y, examined |-> x + 1]
  ELSE IF y = prevJ THEN [how |-> "raise", y |-> y, examined |-> x + 1]
  ELSE IF x + 1 < Len(images) THEN Scan(images, j, prevJ, x + 1)
  ELSE [how |-> "end", y |-> y, examined |-> x + 1]

\* a slip in line 100: `if len(images) > 1`
SelectNeedsTwo(prevJ, images) ==
  IF Len(images) > 1 THEN
    LET j == (prevJ + 1) % Len(images)
        s == Scan(images, j, prevJ, 0)
    IN IF s.how = "raise"
       THEN [kind |-> "GenericError", code |-> 999, y |-> s.y, examined |-> s.examined,
             hset |-> <<>>, ret |-> <<>>, ext |-> ""]
       ELSE [kind |-> "return", code |-> 0, y |-> s.y, examined |-> s.examined,
             hset |-> <<Str(j)>>, ret |-> <<images[s.y + 1]>>,
             ext |-> Extension(images[s.y + 1])]
  ELSE [kind |-> "GenericError", code |-> 100, y |-> -1, examined |-> 0,
        hset |-> <<>>, ret |-> <<>>, ext |-> ""]

\* lines 100-125 for the prevJ read and the list get_files returned: the
\* exception or the pair returned, and the value line 121 writes (str(j))
Select(prevJ, images) ==
  IF images # <<>> THEN
    LET j == (prevJ + 1) % Len(images)
        s == Scan(images, j, prevJ, 0)
    IN IF s.how = "raise"
       THEN [kind |-> "GenericError", code |-> 999, y |-> s.y, examined |-> s.examined,
             hset |-> <<>>, ret |-> <<>>, ext |-> ""]
       ELSE [kind |-> "return", code |-> 0, y |-> s.y, examined |-> s.examined,
             hset |-> <<Str(j)>>, ret |-> <<images[s.y + 1]>>,
             ext |-> Extension(images[s.y + 1])]
  ELSE [kind |-> "GenericError", code |-> 100, y |-> -1, examined |-> 0,
        hset |-> <<>>, ret |-> <<>>, ext |-> ""]

\* get_image from line 97 on, for caller p whose get_files returned images
Choose(p, item, images, lists, ops) ==
  LET text == Slice2m1(ReprReply(Hget("prevJ")))
      seen == [NoResult EXCEPT !.item = item, !.gf = "returned", !.images = images,
                               !.lists = lists, !.ops = ops]
  IN
  IF ~IsNumeral(text)
  THEN /\ Finish(p, [seen EXCEPT !.kind = "ValueError"])
       /\ UNCHANGED channel
  ELSE
    LET prevJ == Int_(text)
        o == Select(prevJ, images)
    IN /\ channel' = IF o.hset = <<>> THEN channel
                     ELSE [channel EXCEPT !.prevJ = o.hset[1]]
       /\ Finish(p, [seen EXCEPT !.kind = o.kind, !.code = o.code, !.y = o.y,
                                 !.examined = o.examined, !.prevJ = prevJ,
                                 !.ret = o.ret, !.ext = o.ext])

(***************************************************************************)
(* core.py get_files / download_github                                     *)
(***************************************************************************)
\* os.listdir(directory) and the emptiness test, lines 144-148
ListFiles(item) ==
  IF ~cache[item].exists THEN [ok |-> FALSE, why |-> "FileNotFoundError", files |-> <<>>]
  ELSE IF Len(cache[item].files) = 0
  THEN [ok |-> FALSE, why |-> "GenericError", files |-> <<>>]
  ELSE [ok |-> TRUE, why |-> "ok", files |-> cache[item].files]

\* a slip in line 153: `if retries <= 3`
MayRetryOnceMore(retries) == retries <= max_retries

\* line 153
MayRetry(retries) == retries < max_retries

\* a slip in lines 166-174: the branches swapped over
SyncOpSwapped == IF cloned THEN "clone" ELSE "pull"

\* download_github lines 166-174: which job goes to the executor
SyncOp == IF cloned THEN "pull" ELSE "clone"

\* line 164: every download_github call makes a pool of its own, so none of
\* the threads of the pool that p submits to is busy
PoolBusy(p) == 0

\* a slip in lines 149-159: the exception is raised again when the retries
\* are used up
GiveUpRaises(p, item, lists, ops) ==
  /\ Finish(p, [NoResult EXCEPT !.kind = "GenericError", !.code = 100, !.item = item,
                                !.gf = "raised", !.lists = lists, !.ops = ops])
  /\ UNCHANGED channel

\* lines 157-159: get_files returns [] and get_image goes on
GiveUp(p, item, lists, ops) == Choose(p, item, <<>>, lists, ops)

\* get_files(item, retries) run on the event loop up to its return (and then
\* the rest of get_image) or up to the await of the executor
get_files(p, item, retries, lists, ops) ==
  LET l == ListFiles(item)
      ls == Append(lists, l.why)
  IN IF l.ok THEN /\ Choose(p, item, l.files, ls, ops)
                  /\ UNCHANGED <<cloned, cache, remote, clones>>
     ELSE IF MayRetry(retries)
     THEN /\ PoolBusy(p) < max_workers
          /\ task' = [task EXCEPT ![p] =
                        [pc |-> "executor", item |-> item, retries |-> retries,
                         op |-> SyncOp, fut |-> "none", lists |-> ls,
                         ops |-> Append(ops, SyncOp)]]
          /\ UNCHANGED <<cloned, cache, remote, channel, last, prev, clones>>
     ELSE /\ GiveUp(p, item, ls, ops)
          /\ UNCHANGED <<cloned, cache, remote, clones>>

\* a command calls get_image(ctx, item), in the lowest free slot; the
\* commands run channel_setup first
get_image(p, item) ==
  /\ task[p].pc = "idle"
  /\ \A q \in 1..(p - 1) : task[q].pc # "idle"
  /\ channel.exists
  /\ get_files(p, item, 0, <<>>, <<>>)

\* the working copy after a clone
Cloned == [i \in Items |-> IF remote[i] = <<>> THEN NoDir ELSE Dir(remote[i])]

\* the working copy after a pull: untracked (empty) directories stay
Pulled == [i \in Items |-> IF remote[i] # <<>> THEN Dir(remote[i])
                           ELSE IF cache[i] = EmptyDir THEN EmptyDir ELSE NoDir]

\* core.py _clone, run by an executor thread; a failed clone leaves nothing
_clone(p) ==
  /\ task[p].pc = "executor"
  /\ task[p].op = "clone"
  /\ \/ /\ cloned' = TRUE
        /\ cache' = Cloned
        /\ clones' = clones + 1
        /\ task' = [task EXCEPT ![p].pc = "resume", ![p].fut = "ok"]
     \/ /\ task' = [task EXCEPT ![p].pc = "resume", ![p].fut = "exc"]
        /\ UNCHANGED <<cloned, cache, clones>>
  /\ UNCHANGED <<remote, channel, last, prev>>

\* core.py _pull, run by an executor thread
_pull(p) ==
  /\ task[p].pc = "executor"
  /\ task[p].op = "pull"
  /\ \/ /\ cache' = Pulled
        /\ task' = [task EXCEPT ![p].pc = "resume", ![p].fut = "ok"]
     \/ /\ task' = [task EXCEPT ![p].pc = "resume", ![p].fut = "exc"]
        /\ UNCHANGED cache
  /\ UNCHANGED <<cloned, remote, channel, last, prev, clones>>

\* the coroutine resumes after the await of lines 170/174: lines 155-156, or
\* the executor's exception leaves get_files and get_image
Resume(p) ==
  /\ task[p].pc = "resume"
  /\ IF task[p].fut = "ok"
     THEN get_files(p, task[p].item, task[p].retries + 1, task[p].lists, task[p].ops)
     ELSE /\ Finish(p, [NoResult EXCEPT !.kind = "GitCommandError", !.gf = "raised",
                                       !.item = task[p].item,
                                       !.lists = task[p].lists, !.ops = task[p].ops])
          /\ UNCHANGED <<cloned, cache, remote, channel, clones>>

InitialDirs(r, i) == {NoDir, EmptyDir} \cup (IF r[i] = <<>> THEN {} ELSE {Dir(r[i])})

InitFetch ==
  /\ remote \in Repositories
  /\ cloned \in BOOLEAN
  /\ cache \in IF cloned
               THEN { c \in [Items -> {NoDir, EmptyDir} \cup { Dir(remote[i]) : i \in Items }] :
                        \A i \in Items : c[i] \in InitialDirs(remote, i) }
               ELSE {[i \in Items |-> NoDir]}
  /\ channel = NoChannel
  /\ task = [p \in Callers |-> IdleTask]
  /\ last = NoResult
  /\ prev = NoPrev
  /\ clones = IF cloned THEN 1 ELSE 0

(***************************************************************************)
(* core.py send_image with on_error = functions.py error_skip.  The awaits *)
(* of ctx.send, ctx.trigger_typing and delete.delete() suspend the         *)
(* coroutine, but one command is in flight here and nothing else runs      *)
(* meanwhile, so the steps are: the command's call, send_image up to the   *)
(* await inside get_files, and send_image from the end of get_image on.    *)
(***************************************************************************)
\* core.py:70  `statInfo.st_size > 4000000`
MaxSendSize == 4000000

\* pc: where the command stands; item: send_image's argument; outcome: how
\* the last send_image ended; on_error: the times it ran the callback
NoSend == [pc |-> "idle", item |-> "", outcome |-> "none", on_error |-> 0]

\* a slip in error_skip: the rotation index is reset as well
error_skip_resets(ch) ==
  [ch EXCEPT !.item = "", !.answered = Str(1), !.prevJ = Str(InitialPrevJ)]

\* functions.py error_skip: the two hset of lines 133-134 on the channel hash
error_skip(ch) == [ch EXCEPT !.item = "", !.answered = Str(1)]

\* a command picks an item for the channel, marks it unanswered and is about
\* to call send_image(ctx, item, on_error=error_skip)
command(item) ==
  /\ send.pc = "idle"
  /\ task[1].pc = "idle"
  /\ channel.exists
  /\ channel' = [channel EXCEPT !.item = item, !.answered = Str(0)]
  /\ send' = [NoSend EXCEPT !.pc = "called", !.item = item]
  /\ UNCHANGED <<cloned, cache, remote, task, last, prev, clones>>

\* send_image lines 42-56: the blank item, or the call of get_image
send_image ==
  /\ send.pc = "called"
  /\ IF send.item = ""
     THEN /\ channel' = error_skip(channel)
          /\ send' = [send EXCEPT !.pc = "idle", !.outcome = "blank", !.on_error = 1]
          /\ UNCHANGED <<cloned, cache, remote, task, last, prev, clones>>
     ELSE /\ get_image(1, send.item)
          /\ send' = [send EXCEPT !.pc = "fetching"]

\* send_image lines 56-81, once get_image has returned or raised
send_image_resume ==
  /\ send.pc = "fetching"
  /\ task[1].pc = "idle"
  /\ IF last.kind = "GenericError"
     THEN /\ channel' = error_skip(channel)
          /\ send' = [send EXCEPT !.pc = "idle", !.outcome = "GenericError", !.on_error = 1]
     ELSE IF last.kind = "return"
     THEN /\ send' = [send EXCEPT !.pc = "idle",
                                  !.outcome = IF last.ret[1].size > MaxSendSize
                                              THEN "too large" ELSE "attachment"]
          /\ UNCHANGED channel
     ELSE /\ send' = [send EXCEPT !.pc = "idle", !.outcome = "raised"]
          /\ UNCHANGED channel
  /\ UNCHANGED <<cloned, cache, remote, task, last, prev, clones>>

InitSend == send = NoSend

(***************************************************************************)
(* web/tasks/git_tasks.py: _push_helper, push, gen_progress                *)
(***************************************************************************)
\* most entries a push result holds
MaxResults == 2
\* most ticks of the clock
MaxTicks == 3
\* seconds in a tick of the clock
TickSeconds == 30
\* git_tasks.py:76  expire(..., 60)
StatusTtl == 60

\* git_tasks.py:18-30
GIT_PUSHINFO_FLAGS ==
  <<"ERROR", "UP_TO_DATE", "FAST_FORWARD", "FORCED_UPDATE", "DELETED", "REMOTE_FAILURE",
    "REMOTE_REJECTED", "REJECTED", "NO_MATCH", "NEW_HEAD", "NEW_TAG">>

\* git_tasks.py:31-41
GIT_PUSH_OPCODES ==
  <<"CHECKING_OUT", "FINDING_SOURCES", "RESOLVING", "RECEIVING", "WRITING", "COMPRESSING",
    "COUNTING", "END", "BEGIN">>

\* the flag words a push result entry can carry: 11 flag bits
FlagWords == 0..2047

\* the op codes the progress callback is called with here
OpCodes == {5, 18}

\* format(n, "b")
RECURSIVE Bin(_)
Bin(n) == IF n < 2 THEN <<Digits[n + 1]>> ELSE Bin(n \div 2) \o <<Digits[(n % 2) + 1]>>

\* format(s, "0>width")
RECURSIVE PadLeft(_, _)
PadLeft(s, width) == IF Len(s) >= width THEN s ELSE PadLeft(<<"0">> \o s, width)

\* a slip in line 53: f"{flags:b}", without the padding
FormatFlagsUnpadded(flags) == Bin(flags)

\* f"{push_result[0].flags:0>11b}"
FormatFlags(flags) == PadLeft(Bin(flags), 11)

\* f"{op_code:0>9b}"
FormatOpCode(op_code) == PadLeft(Bin(op_code), 9)

\* lines 52-55: the names table[i] with int(text[i]) true, from position i on
RECURSIVE SetFlags(_, _, _)
SetFlags(text, table, i) ==
  IF i > Len(text) THEN <<>>
  ELSE (IF text[i] # "0" THEN <<table[i]>> ELSE <<>>) \o SetFlags(text, table, i + 1)

\* _push_helper lines 50-57 for the list repo.remote("origin").push() returned
PushOutcome(push_result) ==
  IF Len(push_result) = 0 THEN [none |-> TRUE, flags |-> <<>>]
  ELSE [none |-> FALSE, flags |-> SetFlags(FormatFlags(push_result[1]), GIT_PUSHINFO_FLAGS, 1)]

\* gen_progress lines 85-89: the set of readable op codes
ReadableOpcode(op_code) ==
  LET text == FormatOpCode(op_code) IN
  { GIT_PUSH_OPCODES[i] : i \in { k \in 1..Len(text) : text[k] # "0" } }

PushResults ==
  UNION { { <<w>> \o t : w \in FlagWords, t \in [1..k -> {1024}] } : k \in 0..(MaxResults - 1) }
    \cup {<<>>}

NoStatus == [exists |-> FALSE, status |-> <<>>, end |-> <<>>, op_code |-> <<>>, expire_at |-> -1]

IdleJob == [pc |-> "idle", pushes |-> 0, push_result |-> <<>>, helper |-> "none",
            flags |-> <<>>, ended |-> -1]

\* hset on the status hash: the key is made when it is not there
HsetStatus(st) == [st EXCEPT !.exists = TRUE]

\* the upload collaborator stores the user's upload and queues push(...)
Submit ==
  /\ job.pc \in {"idle", "done", "failed"}
  /\ save' = TRUE
  /\ job' = [IdleJob EXCEPT !.pc = "queued"]
  /\ UNCHANGED <<origin, status, now>>
  /\ WebOnly

\* push line 63 into _push_helper lines 45-48: pull, add, commit; a pull or
\* commit that raises ends the task
PushStart ==
  /\ job.pc = "queued"
  /\ \/ job' = [job EXCEPT !.pc = "pushing", !.pushes = job.pushes + 1]
     \/ job' = [job EXCEPT !.pc = "failed", !.pushes = job.pushes + 1,
                           !.helper = "raised", !.ended = now]
  /\ UNCHANGED <<origin, status, save, now>>
  /\ WebOnly

\* gen_progress wrapped_progress, called by the push of line 49
wrapped_progress(op_code) ==
  /\ job.pc = "pushing"
  /\ status' = [HsetStatus(status) EXCEPT !.op_code = <<ReadableOpcode(op_code)>>]
  /\ UNCHANGED <<origin, job, save, now>>
  /\ WebOnly

\* the push of line 49 returns push_result: _push_helper lines 50-57, then
\* push lines 64-76
PushReturn ==
  /\ job.pc = "pushing"
  /\ LET push_result == origin
         result == PushOutcome(push_result) IN
       /\ status' = [HsetStatus(status) EXCEPT
                       !.status = IF result.none THEN <<<<"FAIL">>>> ELSE <<result.flags>>,
                       !.end = <<now>>,
                       !.expire_at = now + StatusTtl]
       /\ job' = [job EXCEPT !.pc = "done", !.push_result = push_result,
                             !.helper = IF result.none THEN "None" ELSE "list",
                             !.flags = result.flags, !.ended = now]
  /\ save' = FALSE
  /\ UNCHANGED <<origin, now>>
  /\ WebOnly

\* the push of line 49 raises: the exception leaves _push_helper and push
PushRaises ==
  /\ job.pc = "pushing"
  /\ job' = [job EXCEPT !.pc = "failed", !.helper = "raised", !.ended = now]
  /\ UNCHANGED <<origin, status, save, now>>
  /\ WebOnly

\* time passes; redis drops the status hash when its time to live is over
Tick ==
  /\ now < MaxTicks * TickSeconds
  /\ now' = now + TickSeconds
  /\ status' = IF status.exists /\ status.expire_at >= 0 /\ now' >= status.expire_at
               THEN NoStatus ELSE status
  /\ UNCHANGED <<origin, job, save>>
  /\ WebOnly

(***************************************************************************)
(* web/tasks/git_tasks.py: move_images.  The task runs in a celery worker  *)
(* while the web application goes on adding votes, so every redis command  *)
(* of the task is a step of its own; the loops over files run between two  *)
(* redis commands and are part of the step of the command before them.     *)
(***************************************************************************)
\* most passes of move_images in a run
MaxPasses == 2
\* votes cast while the task is watched
MaxCast == 1
\* git_tasks.py:118  zrangebyscore(..., 3, "+inf")
VoteThreshold == 3

VoteSets == {"invalid", "duplicate", "valid"}

\* the files uploaded for verification: <<item directory, file name>>
VerifyFiles == {<<"bluejay", "a.jpg">>, <<"robin", "b.jpg">>}

\* the image identifiers: the file names
Ids == { f[2] : f \in VerifyFiles }

\* filename_lookup(root): file name -> path, for the files under root
filename_lookup(root) ==
  [id \in { f[2] : f \in root } |-> CHOOSE f \in root : f[2] = id]

\* os.path.dirname(os.path.relpath(path, root))
ItemDir(path) == path[1]

\* get_category(item)
get_category(item) == IF item = "bluejay" THEN "songbirds" ELSE "thrushes"

\* zrangebyscore(key, 3, "+inf")
zrangebyscore(key) == { id \in Ids : votes[key][id] >= VoteThreshold }

\* zremrangebyscore(key, 3, "+inf") on the sets v
zremrangebyscore(v, key) ==
  [v EXCEPT ![key] = [id \in Ids |-> IF v[key][id] >= VoteThreshold THEN 0 ELSE v[key][id]]]

\* a slip in lines 137-138: the test `image in delete` left out
ToMoveAll(valid, delete) == valid

\* lines 136-138: the images of valid the loop does not skip
ToMove(valid, delete) == valid \ delete

\* a slip in line 145: `if valid and delete`
HasChangesBoth(valid, delete) == valid # {} /\ delete # {}

\* line 145: `if valid or delete`
HasChanges(valid, delete) == valid # {} \/ delete # {}

\* the ways a call _push_helper(repo, "Update through verification!") runs:
\* the git operations done, and the exception or the value returned
HelperRuns ==
  { [ops |-> <<"pull">>, how |-> "raised", value |-> PushOutcome(<<>>)],
    [ops |-> <<"pull", "add", "commit", "push">>, how |-> "raised",
     value |-> PushOutcome(<<>>)],
    [ops |-> <<"pull", "add", "commit", "push">>, how |-> "returned",
     value |-> PushOutcome(<<>>)],
    [ops |-> <<"pull", "add", "commit", "push">>, how |-> "returned",
     value |-> PushOutcome(<<256>>)] }

NoRun == [ops |-> <<>>, how |-> "none", value |-> PushOutcome(<<>>)]

\* lines 149-153: the line logged for a repository
LogLine(repo, value) ==
  IF value.none THEN <<repo, "failed completely!">> ELSE <<repo, "push success!">>

NoCleared == [key \in VoteSets |-> {}]

\* pc: where the task stands; n: passes started; cast: votes cast since
\* the start of the run; lookup, delete, valid: the
\* locals; invalid: what the first read returned; exc: the exception that
\* ended the pass; history of the pass: cleared: the identifiers each
\* zremrangebyscore removed, removed/moved: the files os.remove / the copy
\* loop took out of the verification directory, trail: the reads, clears
\* and file changes in order, verify_push/image_push: the _push_helper
\* calls, log: the lines of 149-155
IdlePass == [pc |-> "idle", n |-> 0, cast |-> 0, lookup |-> <<>>, invalid |-> {}, delete |-> {},
             valid |-> {}, exc |-> "none", cleared |-> NoCleared, removed |-> {},
             moved |-> {}, trail |-> <<>>, verify_push |-> NoRun, image_push |-> NoRun,
             log |-> <<>>]

\* a verifier's vote: zincrby(key, 1, id) by the web application
Vote(key, id) ==
  /\ pass.cast < MaxCast
  /\ votes' = [votes EXCEPT ![key][id] = @ + 1]
  /\ pass' = [pass EXCEPT !.cast = @ + 1]
  /\ UNCHANGED <<vdir, irepo>>
  /\ MoveOnly

\* lines 110-118: the task starts, builds the path lookup and reads the
\* invalid set
move_images ==
  /\ pass.pc \in {"idle", "done", "failed"}
  /\ pass.n < MaxPasses
  /\ pass' = [IdlePass EXCEPT !.pc = "read duplicate", !.n = pass.n + 1,
                              !.cast = pass.cast,
                              !.lookup = filename_lookup(vdir),
                              !.invalid = zrangebyscore("invalid"),
                              !.trail = <<"read invalid">>]
  /\ UNCHANGED <<votes, vdir, irepo>>
  /\ MoveOnly

\* lines 119-122: the duplicate set is read, delete is the union
move_read_duplicate ==
  /\ pass.pc = "read duplicate"
  /\ LET delete == pass.invalid \cup zrangebyscore("duplicate") IN
     pass' = [pass EXCEPT !.delete = delete,
                          !.trail = Append(@, "read duplicate"),
                          !.pc = IF delete # {} THEN "clear invalid" ELSE "read valid"]
  /\ UNCHANGED <<votes, vdir, irepo>>
  /\ MoveOnly

\* line 123
move_clear_invalid ==
  /\ pass.pc = "clear invalid"
  /\ votes' = zremrangebyscore(votes, "invalid")
  /\ pass' = [pass EXCEPT !.pc = "clear duplicate",
                          !.cleared["invalid"] = zrangebyscore("invalid"),
                          !.trail = Append(@, "clear invalid")]
  /\ UNCHANGED <<vdir, irepo>>
  /\ MoveOnly

\* lines 124-126: the duplicate set is cleared and the files of delete are
\* removed; lookup[image] raises KeyError for an image the lookup does not
\* hold, after the loop has removed any of the others
move_delete ==
  /\ pass.pc = "clear duplicate"
  /\ votes' = zremrangebyscore(votes, "duplicate")
  /\ LET known == pass.delete \cap DOMAIN pass.lookup
         seen == [pass EXCEPT !.cleared["duplicate"] = zrangebyscore("duplicate"),
                              !.trail = Append(@, "clear duplicate")]
     IN \E done \in SUBSET known :
          /\ known = pass.delete => done = known
          /\ vdir' = vdir \ { pass.lookup[id] : id \in done }
          /\ pass' = [seen EXCEPT !.removed = done,
                                  !.trail = IF done = {} THEN @ ELSE Append(@, "remove"),
                                  !.exc = IF known = pass.delete THEN "none" ELSE "KeyError",
                                  !.pc = IF known = pass.delete THEN "read valid"
                                         ELSE "failed"]
  /\ UNCHANGED irepo
  /\ MoveOnly

\* lines 128-134: the valid set is read
move_read_valid ==
  /\ pass.pc = "read valid"
  /\ LET valid == zrangebyscore("valid") IN
     pass' = [pass EXCEPT !.valid = valid,
                          !.trail = Append(@, "read valid"),
                          !.pc = IF valid # {} THEN "clear valid" ELSE "push"]
  /\ UNCHANGED <<votes, vdir, irepo>>
  /\ MoveOnly

\* lines 135-143: the valid set is cleared and its images, those of delete
\* left out, are copied into the image repository and removed; the loop
\* ends with KeyError at an image the lookup does not hold and with
\* FileNotFoundError at one whose file is gone
move_valid ==
  /\ pass.pc = "clear valid"
  /\ votes' = zremrangebyscore(votes, "valid")
  /\ LET todo == ToMove(pass.valid, pass.delete)
         known == { id \in todo \cap DOMAIN pass.lookup : pass.lookup[id] \in vdir }
         unknown == todo \ DOMAIN pass.lookup
         seen == [pass EXCEPT !.cleared["valid"] = zrangebyscore("valid"),
                              !.trail = Append(@, "clear valid")]
     IN \E done \in SUBSET known :
          /\ known = todo => done = known
          /\ vdir' = vdir \ { pass.lookup[id] : id \in done }
          /\ irepo' = irepo \cup { <<get_category(ItemDir(pass.lookup[id])), id>> : id \in done }
          /\ \E exc \in IF known = todo THEN {"none"}
                         ELSE (IF unknown # {} THEN {"KeyError"} ELSE {})
                              \cup (IF todo \ (known \cup unknown) # {}
                                    THEN {"FileNotFoundError"} ELSE {}) :
               pass' = [seen EXCEPT !.moved = done,
                                    !.trail = IF done = {} THEN @ ELSE Append(@, "move"),
                                    !.exc = exc,
                                    !.pc = IF known = todo THEN "push" ELSE "failed"]
  /\ MoveOnly

\* lines 145-155: the two pushes and the log; an exception of _push_helper
\* leaves move_images
move_push ==
  /\ pass.pc = "push"
  /\ IF HasChanges(pass.valid, pass.delete)
     THEN \E v \in HelperRuns :
            IF v.how = "raised"
            THEN pass' = [pass EXCEPT !.pc = "failed", !.exc = "GitCommandError",
                                      !.verify_push = v]
            ELSE \E i \in HelperRuns :
                   IF i.how = "raised"
                   THEN pass' = [pass EXCEPT !.pc = "failed", !.exc = "GitCommandError",
                                             !.verify_push = v, !.image_push = i]
                   ELSE pass' = [pass EXCEPT !.pc = "done", !.verify_push = v,
                                             !.image_push = i,
                                             !.log = <<LogLine("verify repo", v.value),
                                                       LogLine("image repo", i.value)>>]
     ELSE pass' = [pass EXCEPT !.pc = "done", !.log = <<<<"no changes to update!">>>>]
  /\ UNCHANGED <<votes, vdir, irepo>>
  /\ MoveOnly

\* nothing to verify, no task
InitMoveIdle ==
  /\ votes = [key \in VoteSets |-> [id \in Ids |-> 0]]
  /\ vdir = {}
  /\ irepo = {}
  /\ pass = IdlePass

InitPush ==
  /\ origin = <<>>
  /\ job = IdleJob
  /\ status = NoStatus
  /\ save = FALSE
  /\ now = 0

Init == InitFetch /\ InitPush /\ InitSend /\ InitMoveIdle

\* one command at a time
Next ==
  \/ channel_setup /\ ChatOnly
  \/ \E item \in Items : get_image(1, item) /\ ChatOnly
  \/ _clone(1) /\ ChatOnly
  \/ _pull(1) /\ ChatOnly
  \/ Resume(1) /\ ChatOnly

Spec == Init /\ [][Next]_vars

\* the item the concurrent commands ask for
ConcItem == "bluejay"

\* any number of commands in flight
NextConc ==
  \/ channel_setup /\ ChatOnly
  \/ \E p \in Callers : get_image(p, ConcItem) /\ ChatOnly
  \/ \E p \in Callers : _clone(p) /\ ChatOnly
  \/ \E p \in Callers : _pull(p) /\ ChatOnly
  \/ \E p \in Callers : Resume(p) /\ ChatOnly

\* the concurrent runs start from a repository that holds valid images of
\* ConcItem only, cloned or not
InitConc ==
  /\ Init
  /\ remote[ConcItem] # <<>>
  /\ \A i \in Items \ {ConcItem} : remote[i] = <<>>
  /\ \A k \in 1..Len(remote[ConcItem]) : IsValidImage(remote[ConcItem][k])

SpecConc == InitConc /\ [][NextConc]_vars

\* the event loop and the executor threads go on running whatever can run
SpecConcFair == SpecConc /\ WF_vars(NextConc)

\* the chat side at rest
InitChatIdle ==
  /\ InitFetch
  /\ ~cloned
  /\ \A i \in Items : remote[i] = <<>>

NextPush ==
  \/ Submit
  \/ PushStart
  \/ \E op_code \in OpCodes : wrapped_progress(op_code)
  \/ PushReturn
  \/ PushRaises
  \/ Tick

\* the commands of one channel, one at a time, each sending an image
NextSend ==
  \/ channel_setup /\ ChatOnly
  \/ \E item \in Items \cup {""} : command(item) /\ UNCHANGED <<pushVars, moveVars>>
  \/ send_image /\ UNCHANGED <<pushVars, moveVars>>
  \/ _clone(1) /\ ChatOnly
  \/ _pull(1) /\ ChatOnly
  \/ Resume(1) /\ ChatOnly
  \/ send_image_resume /\ UNCHANGED <<pushVars, moveVars>>

SpecSend == Init /\ [][NextSend]_vars

\* the reconciliation task and the verifiers' votes
NextMove ==
  \/ \E key \in VoteSets, id \in Ids : Vote(key, id)
  \/ move_images
  \/ move_read_duplicate
  \/ move_clear_invalid
  \/ move_delete
  \/ move_read_valid
  \/ move_valid
  \/ move_push

\* every uploaded file is there, with the votes it has got so far
InitMove ==
  /\ InitChatIdle
  /\ InitPush
  /\ InitSend
  /\ votes \in [VoteSets -> [Ids -> {0, VoteThreshold - 1, VoteThreshold}]]
  /\ vdir = VerifyFiles
  /\ irepo = {}
  /\ pass = IdlePass

SpecMove == InitMove /\ [][NextMove]_vars

\* the web tasks, for every answer origin can give
InitWeb ==
  /\ InitChatIdle
  /\ origin \in PushResults
  /\ job = IdleJob
  /\ status = NoStatus
  /\ save = FALSE
  /\ now = 0
  /\ InitSend
  /\ InitMoveIdle

SpecPush == InitWeb /\ [][NextPush]_vars

(***************************************************************************)
(* Properties of the selection (get_image).                                *)
(***************************************************************************)
NumValid(images) == Cardinality({ k \in 1..Len(images) : IsValidImage(images[k]) })

AllListingsFailed(lists) == \A k \in 1..Len(lists) : lists[k] # "ok"

\* C1: two successful get_image calls in a row on the channel, over the same
\* candidate list with at least two valid candidates, never return the same
\* candidate index.
C1_NoImmediateRepeat ==
  ( /\ last.kind = "return"
    /\ prev.kind = "return"
    /\ last.images = prev.images
    /\ NumValid(last.images) >= 2 )
  => last.y # prev.y

\* C2: whenever get_image returns a pair, the candidate returned passes the
\* validity filter (extension and size), whatever prevJ was.
C2_ReturnedImageIsValid ==
  last.kind = "return" => /\ IsValidImage(last.ret[1])
                          /\ last.ext = Extension(last.ret[1])

\* C3: on a non-empty candidate list without a valid candidate, get_image
\* raises code 999 after examining exactly len(candidates) candidates, and
\* returns no path, whatever prevJ was.
C3_NoValidImagesRaises999 ==
  ( /\ last.gf = "returned"
    /\ last.images # <<>>
    /\ NumValid(last.images) = 0 )
  => /\ last.kind = "GenericError"
     /\ last.code = 999
     /\ last.examined = Len(last.images)
     /\ last.ret = <<>>

\* C4: get_image raises code 100 exactly when get_files returned the empty
\* list, and then the channel's prevJ is still the value the call read.
C4_EmptyListRaises100 ==
  /\ last.gf = "returned" =>
       ((last.kind = "GenericError" /\ last.code = 100) <=> last.images = <<>>)
  /\ last.gf # "returned" => last.code # 100
  /\ last.code = 100 => channel.prevJ = Str(last.prevJ)

\* a call raised code 100 on a channel whose prevJ an earlier call had set
C4_Witness ==
  /\ last.kind = "GenericError"
  /\ last.code = 100
  /\ last.images = <<>>
  /\ prev.kind = "return"
  /\ channel.prevJ # Str(InitialPrevJ)

(***************************************************************************)
(* Properties of get_files and download_github.                            *)
(***************************************************************************)
\* C5: a get_files call whose every listing found the directory missing or
\* empty, and whose syncs did not raise, ends after max_retries syncs and
\* max_retries + 1 listings by returning the empty list; a call under way is
\* never stuck and never lists or syncs more often than that.
C5_ExhaustedRetriesReturnEmpty ==
  /\ \A p \in Callers :
       /\ task[p].pc # "idle" => /\ task[p].retries < max_retries
                                 /\ Len(task[p].lists) <= max_retries
       /\ task[p].pc = "executor" => ENABLED (_clone(p) \/ _pull(p))
       /\ task[p].pc = "resume" => ENABLED Resume(p)
  /\ ( /\ last.kind \notin {"none", "GitCommandError"}
       /\ AllListingsFailed(last.lists) )
     => /\ last.gf = "returned"
        /\ last.images = <<>>
        /\ Len(last.lists) = max_retries + 1
        /\ Len(last.ops) = max_retries

\* a call went through all its retries and get_files returned []
C5_Witness ==
  /\ last.gf = "returned"
  /\ last.images = <<>>
  /\ last.lists = <<"FileNotFoundError", "FileNotFoundError", "FileNotFoundError",
                    "FileNotFoundError">>

\* C6: a get_files call syncs only after a listing that found the directory
\* missing or empty, at most max_retries times, each sync followed by exactly
\* one more listing; when the first listing finds a file there is no sync and
\* that listing is what get_files returns.
C6_SyncOnlyAfterFailedListing ==
  /\ \A p \in Callers : task[p].pc # "idle" =>
       /\ Len(task[p].ops) = Len(task[p].lists)
       /\ Len(task[p].ops) <= max_retries
       /\ AllListingsFailed(task[p].lists)
  /\ last.kind # "none" =>
       /\ Len(last.ops) <= max_retries
       /\ \A k \in 1..Len(last.ops) : last.lists[k] # "ok"
       /\ last.gf = "returned" => Len(last.lists) = Len(last.ops) + 1
       /\ last.gf = "raised" => Len(last.lists) = Len(last.ops)
       /\ last.lists[1] = "ok" => last.ops = <<>> /\ last.images # <<>>
       /\ (task[1].pc = "idle" /\ last.gf = "returned" /\ last.images # <<>>)
            => last.images = cache[last.item].files

\* a call found the directory empty, pulled once and its second listing
\* found files
C6_Witness ==
  /\ last.kind = "return"
  /\ last.ops = <<"pull">>
  /\ last.lists = <<"GenericError", "ok">>

\* C7: download_github clones exactly when the download directory is missing
\* and pulls otherwise: with the commands in sequence a clone is only ever
\* the first job since the directory was missing, no clone completes once
\* the directory is there, and every pull runs on a cloned directory.
C7_CloneOnlyWhenMissing ==
  /\ clones <= 1
  /\ cloned <=> clones = 1
  /\ \A p \in Callers :
       /\ task[p].pc = "executor" => (task[p].op = "clone" <=> ~cloned)
       /\ task[p].pc = "executor" => (task[p].op = "pull" <=> cloned)
       /\ (task[p].pc = "resume" /\ task[p].fut = "ok") => cloned
       /\ \A k \in 1..Len(task[p].ops) : task[p].ops[k] = "clone" => k = 1
  /\ \A k \in 1..Len(last.ops) : last.ops[k] = "clone" => k = 1

\* from a missing directory: one clone, then pulls
C7_Witness ==
  /\ task[1].pc = "resume"
  /\ task[1].fut = "ok"
  /\ task[1].ops = <<"clone", "pull", "pull">>
  /\ clones = 1

\* C8: at most max_workers clone/pull jobs run at the same time, however many
\* get_files/download_github callers are under way.
C8_AtMostThreeSyncs ==
  Cardinality({ p \in Callers : task[p].pc = "executor" }) <= max_workers

(***************************************************************************)
(* Properties of _push_helper and push.                                    *)
(***************************************************************************)
\* the bit of each flag, as the comments of lines 19-29 give it
FlagBit ==
  [ERROR |-> 1024, UP_TO_DATE |-> 512, FAST_FORWARD |-> 256, FORCED_UPDATE |-> 128,
   DELETED |-> 64, REMOTE_FAILURE |-> 32, REMOTE_REJECTED |-> 16, REJECTED |-> 8,
   NO_MATCH |-> 4, NEW_HEAD |-> 2, NEW_TAG |-> 1]

NamesOfBits(w) ==
  SelectSeq(<<"ERROR", "UP_TO_DATE", "FAST_FORWARD", "FORCED_UPDATE", "DELETED",
              "REMOTE_FAILURE", "REMOTE_REJECTED", "REJECTED", "NO_MATCH", "NEW_HEAD",
              "NEW_TAG">>,
            LAMBDA name : (w \div FlagBit[name]) % 2 = 1)

\* C9: _push_helper returns None exactly when the push gave no result entry;
\* otherwise it returns the names of the bits set in the first entry's flag
\* word, most significant bit first: for the word 0 the empty list, not None.
C9_PushHelperDecodesFlags ==
  job.helper \in {"None", "list"} =>
    /\ job.helper = "None" <=> job.push_result = <<>>
    /\ job.push_result # <<>> => job.flags = NamesOfBits(job.push_result[1])
    /\ (job.push_result # <<>> /\ job.push_result[1] = 0) => job.flags = <<>>

\* the helper decoded FAST_FORWARD + NEW_HEAD from the first of two entries
C9_Witness ==
  /\ job.pc = "done"
  /\ job.helper = "list"
  /\ job.push_result = <<258, 1024>>
  /\ job.flags = <<"FAST_FORWARD", "NEW_HEAD">>

\* C10: when the push task has ended, however it ended, the status hash
\* holds status = ["FAIL"] exactly when the helper returned None (else the
\* decoded list) and the end time, with 60 seconds to live from then on, the
\* save key is gone, and the push was tried once.
C10_PushAlwaysRecorded ==
  job.pc \in {"done", "failed"} =>
    /\ ~save
    /\ job.pushes = 1
    /\ now < job.ended + StatusTtl =>
         /\ status.exists
         /\ status.status = <<IF job.helper = "None" THEN <<"FAIL">> ELSE job.flags>>
         /\ status.end = <<job.ended>>
         /\ status.expire_at = job.ended + StatusTtl

(***************************************************************************)
(* Properties of the reconciliation (move_images).                         *)
(***************************************************************************)
\* C11: in a pass, an image with 3 or more votes in the valid set and in the
\* invalid or duplicate set is removed from the verification directory and
\* not copied into the image repository: no image is both deleted and
\* moved, and the copy loop never reaches for a file the pass has deleted.
C11_DeleteWins ==
  /\ pass.moved \cap pass.delete = {}
  /\ pass.exc # "FileNotFoundError"
  /\ \A id \in pass.delete \cap pass.valid :
       /\ id \in pass.removed
       /\ id \notin pass.moved
       /\ pass.lookup[id] \notin vdir
       /\ <<get_category(ItemDir(pass.lookup[id])), id>> \notin irepo

\* a pass deleted an image that was in both sets and moved another one
C11_Witness ==
  /\ pass.pc = "done"
  /\ pass.delete \cap pass.valid # {}
  /\ pass.moved # {}

\* C12: a pass that runs to its end calls _push_helper once on the
\* verification repository and once on the image repository when delete or
\* valid is not empty, and does no pull, commit or push on either when both
\* are empty; no push is made before the sets are read.
C12_PushOncePerRepository ==
  /\ pass.pc = "done" =>
       IF pass.delete # {} \/ pass.valid # {}
       THEN /\ pass.verify_push.ops = <<"pull", "add", "commit", "push">>
            /\ pass.image_push.ops = <<"pull", "add", "commit", "push">>
            /\ Len(pass.log) = 2
       ELSE /\ pass.verify_push = NoRun
            /\ pass.image_push = NoRun
            /\ pass.log = << <<"no changes to update!">> >>
  /\ pass.pc \notin {"done", "failed"} =>
       pass.verify_push = NoRun /\ pass.image_push = NoRun
  /\ pass.image_push # NoRun => pass.verify_push.how = "returned"

\* a pass with only a deletion pushed both repositories
C12_Witness ==
  /\ pass.pc = "done"
  /\ pass.delete # {}
  /\ pass.valid = {}
  /\ pass.verify_push.how = "returned"
  /\ pass.image_push.how = "returned"

\* C13: when the push to the verification repository fails, by returning no
\* result entries or by its pull, commit or push failing, the push to the
\* image repository is still attempted and the pass ends with the failure
\* logged, not raised.
C13_VerifyFailureDoesNotBlockImagePush ==
  (pass.verify_push.how = "raised" \/
   (pass.verify_push.how = "returned" /\ pass.verify_push.value.none))
    => /\ pass.image_push.how # "none"
       /\ pass.pc # "failed" \/ pass.image_push.how = "raised"

\* C16: no file leaves the verification directory before the invalid, the
\* duplicate and the valid set have all been read (and cleared).
C16_SnapshotBeforeMutation ==
  \A k \in 1..Len(pass.trail) :
    pass.trail[k] \in {"remove", "move"} =>
      \A r \in {"read invalid", "read duplicate", "read valid"} :
        \E j \in 1..(k - 1) : pass.trail[j] = r

\* C17: with votes arriving during a pass, every identifier the pass clears
\* from the invalid or duplicate set is in its delete set and every one it
\* clears from the valid set is in its valid set.
C17_ReadAndClearAtomic ==
  /\ pass.cleared["invalid"] \cup pass.cleared["duplicate"] \subseteq pass.delete
  /\ pass.cleared["valid"] \subseteq pass.valid

(***************************************************************************)
(* Properties of send_image and of the rotation index.                     *)
(***************************************************************************)
\* C14: a send_image call with on_error = error_skip that ends without the
\* attachment sent has run the callback, so the channel has item "" and
\* answered 1.
C14_ErrorCallbackAlwaysRuns ==
  (send.pc = "idle" /\ send.outcome \notin {"none", "attachment"})
    => /\ send.on_error = 1
       /\ channel.item = ""
       /\ channel.answered = Str(1)

\* C15: after a get_image call that returned a valid candidate, the
\* channel's prevJ is the index of the candidate returned.
C15_PrevJIsReturnedIndex ==
  (last.kind = "return" /\ IsValidImage(last.ret[1])) => channel.prevJ = Str(last.y)

\* C19: prevJ changes only in a get_image call that returns a path, to the
\* value that call computed, and in channel_setup when it creates the
\* record; a raising get_image call, error_skip, get_files, the syncs and
\* channel_setup on an existing channel leave it as it is.
C19_PrevJFrame ==
  [][channel'.prevJ # channel.prevJ =>
       \/ ~channel.exists /\ channel'.exists /\ channel'.prevJ = Str(InitialPrevJ)
       \/ /\ last' # last
          /\ last'.kind = "return"
          /\ send'.pc \in {"fetching"}
          /\ channel'.prevJ = Str((last'.prevJ + 1) % Len(last'.images))]_vars

\* a get_image call raised and error_skip ran on a channel whose prevJ an
\* earlier call had set: prevJ is still that value
C19_Witness ==
  /\ send.outcome = "GenericError"
  /\ send.on_error = 1
  /\ last.kind = "GenericError"
  /\ prev.kind = "return"
  /\ channel.prevJ # Str(InitialPrevJ)

\* C20: whenever get_image reads prevJ for a list that is not empty, the
\* value is the initial 20 or an index of that list; stated for the calls
\* that follow a call which returned a valid candidate.
C20_PrevJInRange ==
  (/\ last.kind \in {"return", "GenericError"}
   /\ last.images # <<>>
   /\ prev.kind = "return"
   /\ IsValidImage(prev.images[prev.y + 1]))
    => \/ last.prevJ = InitialPrevJ
       \/ last.prevJ \in 0..(Len(last.images) - 1)

\* a get_image call ends having read a prevJ that was not the stored one
\* when it computed and wrote its own: it read before another call wrote
StaleRead ==
  /\ last' # last
  /\ last'.prevJ # -1
  /\ Str(last'.prevJ) # channel.prevJ

C21_SendRejectsAtLimit ==
  (send.pc = "idle" /\ send.outcome \in {"attachment", "too large"})
    => (send.outcome = "attachment" <=> last.ret[1].size < MaxFileSize)

\* C22: with download_github calls overlapping while the download directory
\* is missing, no clone is started while another clone is in progress and
\* no pull is started before a clone has completed.
C22_ConcurrentSyncsAreSafe ==
  /\ Cardinality({ p \in Callers : task[p].pc = "executor" /\ task[p].op = "clone" }) <= 1
  /\ \A p \in Callers : (task[p].pc = "executor" /\ task[p].op = "pull") => cloned

\* C23: a pass applies the effect of every entry it read and cleared: the
\* files of delete are removed, those of valid that are not in delete are
\* moved, and the pass gets to its push step; no pass ends with KeyError at
\* an identifier the path lookup does not hold.
C23_ClearedEntriesAreApplied ==
  /\ pass.exc # "KeyError"
  /\ pass.pc \in {"push", "done"} =>
       /\ (pass.cleared["invalid"] \cup pass.cleared["duplicate"]) \cap pass.delete
            \subseteq pass.removed
       /\ (pass.cleared["valid"] \cap pass.valid) \ pass.delete \subseteq pass.moved


====
